---- MODULE Spec2Model ----
(***************************************************************************)
(* Model of the rock-paper-scissors web game (src/src/App.tsx).            *)
(*                                                                         *)
(* The App component is a React function component.  Its state lives in    *)
(* useState cells; a state setter does not change what the running         *)
(* callbacks see: it enqueues an update, and a later render commits the    *)
(* queued updates and creates new callbacks that close over the committed  *)
(* values.  The model therefore keeps                                      *)
(*   st     the committed state (what the callbacks of the last render     *)
(*          closed over),                                                  *)
(*   nx     the committed state with every queued update applied,          *)
(*   timer  the interval installed by the auto-play effect, with the       *)
(*          values its callback closed over,                               *)
(*   rounds the playRound executions waiting on hands.send (a bag), each   *)
(*          with the values its playRound/predictGesture closed over.      *)
(* The functions of the repository that take no part in the component's    *)
(* state (the arg-max of the two inference paths, the preprocessing of the *)
(* training and inference scripts, the bounding box of the hand-detection  *)
(* callback) are applied to drawn inputs in specifications of their own;   *)
(*   call   is the application: the function, its input, its result.       *)
(* Fractions of the frame (landmarks, bounding boxes) are integers in      *)
(* thousandths; probabilities are integers in tenths.                      *)
(***************************************************************************)
EXTENDS Integers, Sequences, FiniteSets, Bags, TLC

VARIABLES st, nx, timer, rounds, srcObject, gum,
          started, resolved, aborted, last, call

vars == <<st, nx, timer, rounds, srcObject, gum,
          started, resolved, aborted, last, call>>

(* ------------------------------ bounds -------------------------------- *)

\* rounds whose body may begin in one explored session
MaxRounds == 2
\* playRound executions that may be waiting on hands.send at once
MaxInFlight == 2
\* getUserMedia requests that may be pending at once
MaxPendingStarts == 1

(* ----------------------------- constants ------------------------------ *)

\* The 3 possible gestures, in the classifier's output order.
CLASSES == <<"rock", "paper", "scissors">>

Gesture == {CLASSES[i] : i \in 1..Len(CLASSES)}

\* One unit of a frame fraction: 1000 is the whole frame.
Unit == 1000

\* padding = 0.1, as a divisor of the hand's extent
PaddingDiv == 10

\* Math.min(videoWidth, videoHeight) * 0.6, as a fraction num/den
CenterNum == 6
CenterDen == 10

Min(a, b) == IF a < b THEN a ELSE b
Max(a, b) == IF a > b THEN a ELSE b

(* --------------------------- pure functions --------------------------- *)

winsRockBeatsPaper == [g \in Gesture |->
           CASE g = "rock" -> "paper"
             [] g = "paper" -> "rock"
             [] g = "scissors" -> "paper"]

\* What each gesture beats.
wins == [g \in Gesture |->
           CASE g = "rock" -> "scissors"
             [] g = "paper" -> "rock"
             [] g = "scissors" -> "paper"]

determineWinnerLoseFirst(player, computer) ==
  IF player = computer THEN "tie"
  ELSE IF wins[player] = computer THEN "lose" ELSE "win"

determineWinner(player, computer) ==
  IF player = computer THEN "tie"
  ELSE IF wins[player] = computer THEN "win" ELSE "lose"

\* The field of score a result increments.
scoreKeyAlwaysPlayer(result) == "player"

scoreKey(result) ==
  IF result = "win" THEN "player"
  ELSE IF result = "lose" THEN "computer" ELSE "ties"

\* setScore's updater: prev => ({...prev, [key]: prev[key] + 1})
scoreUpdate(prev, result) ==
  [prev EXCEPT ![scoreKey(result)] = prev[scoreKey(result)] + 1]

(* --------------------- hand locator results (onResults) ---------------- *)

\* Landmark sets the hand locator may report (x, y in thousandths): an
\* ordinary hand, and a hand whose landmarks all coincide.
LandmarkSets ==
  { {<<300, 300>>, <<600, 700>>},
    {<<500, 500>>} }

SetMin(S) == CHOOSE m \in S : \A e \in S : m <= e
SetMax(S) == CHOOSE m \in S : \A e \in S : m >= e

boundingBoxNoClamp(landmarks) ==
  LET minX == SetMin({Unit} \cup {l[1] : l \in landmarks})
      minY == SetMin({Unit} \cup {l[2] : l \in landmarks})
      maxX == SetMax({0} \cup {l[1] : l \in landmarks})
      maxY == SetMax({0} \cup {l[2] : l \in landmarks})
      width == maxX - minX
      height == maxY - minY
  IN [x |-> minX - width \div PaddingDiv,
      y |-> minY - height \div PaddingDiv,
      width |-> width + 2 * (width \div PaddingDiv),
      height |-> height + 2 * (height \div PaddingDiv)]

\* The padded bounding box the onResults callback stores for a hand.
boundingBox(landmarks) ==
  LET minX == SetMin({Unit} \cup {l[1] : l \in landmarks})
      minY == SetMin({Unit} \cup {l[2] : l \in landmarks})
      maxX == SetMax({0} \cup {l[1] : l \in landmarks})
      maxY == SetMax({0} \cup {l[2] : l \in landmarks})
      width == maxX - minX
      height == maxY - minY
  IN [x |-> Max(0, minX - width \div PaddingDiv),
      y |-> Max(0, minY - height \div PaddingDiv),
      width |-> Min(Unit, width + 2 * (width \div PaddingDiv)),
      height |-> Min(Unit, height + 2 * (height \div PaddingDiv))]

\* What hands.send can deliver: a hand, no hand, or a rejected promise.
NoHand == {}
SendOutcomes == {[kind |-> "hand", landmarks |-> L] : L \in LandmarkSets}
                  \cup {[kind |-> "nohand", landmarks |-> NoHand],
                        [kind |-> "reject", landmarks |-> NoHand]}

(* ----------------------- predictGesture: the crop ---------------------- *)

\* video.videoWidth x video.videoHeight at capture: no frame yet, or the
\* requested 320x240 stream.
VideoDims == {<<0, 0>>, <<320, 240>>}

\* ctx.getImageData converts its arguments to integers (truncation) and
\* throws when the width or the height is 0.
handRegion(box, videoWidth, videoHeight) ==
  [kind |-> "hand",
   sx |-> (box.x * videoWidth) \div Unit,
   sy |-> (box.y * videoHeight) \div Unit,
   sw |-> (box.width * videoWidth) \div Unit,
   sh |-> (box.height * videoHeight) \div Unit]

centerRegion(videoWidth, videoHeight) ==
  LET centerSize10 == Min(videoWidth, videoHeight) * CenterNum
  IN [kind |-> "center",
      sx |-> (CenterDen * videoWidth - centerSize10) \div (2 * CenterDen),
      sy |-> (CenterDen * videoHeight - centerSize10) \div (2 * CenterDen),
      sw |-> centerSize10 \div CenterDen,
      sh |-> centerSize10 \div CenterDen]

\* STEP 3 of predictGesture, with the handDetected / handBoundingBox the
\* callback closed over.
cropRegion(c, dims) ==
  IF c.handDetected /\ c.handBoundingBox # << >>
    THEN handRegion(c.handBoundingBox[1], dims[1], dims[2])
    ELSE centerRegion(dims[1], dims[2])

getImageDataThrows(region) == region.sw = 0 \/ region.sh = 0

(* --------------------- predictGesture: the arg-max --------------------- *)

\* Probability vectors (tenths) the classifier may return.
Probs == { <<4, 4, 2>>, <<2, 5, 3>>, <<1, 2, 7>> }

SeqMax(p) == SetMax({p[i] : i \in 1..Len(p)})

maxIndexLast(p) == SetMax({i \in 1..Len(p) : p[i] = SeqMax(p)})

\* probabilities.indexOf(Math.max(...probabilities)), 1-based
maxIndex(p) == SetMin({i \in 1..Len(p) : p[i] = SeqMax(p)})

prediction(p) == [gesture |-> CLASSES[maxIndex(p)], confidence |-> p[maxIndex(p)]]

\* The Node inference path (rps-model/src/predict.ts): its own class list,
\* and what predict returns for the probabilities p.
predictCLASSES == <<"rock", "paper", "scissors">>

predict(p) ==
  [predictedClass |-> predictCLASSES[maxIndex(p)], probabilities |-> p]

(* ------------------ initializeHandDetection (mount) -------------------- *)

\* new window.Hands(...): an instance with no options set by the page and
\* no results callback.
newHands == [options |-> << >>, onResults |-> FALSE]

\* handsInstance.setOptions(options)
setOptions(handsInstance, options) == [handsInstance EXCEPT !.options = <<options>>]

\* handsInstance.onResults(callback)
installOnResults(handsInstance) == [handsInstance EXCEPT !.onResults = TRUE]

\* The options of the page (confidences in tenths).
HandsOptions ==
  [maxNumHands |-> 1, modelComplexity |-> 0,
   minDetectionConfidence |-> 5, minTrackingConfidence |-> 5]

initializeHandDetectionUnconfigured == <<newHands>>

\* The statements of initializeHandDetection in program order, none of
\* them awaited: construct, setOptions, onResults, and then setHands with
\* the instance (the value queued for the hands cell).
initializeHandDetection ==
  <<installOnResults(setOptions(newHands, HandsOptions))>>

(* ------------------ playRound: the computer's choice ------------------- *)

\* Math.random() returns random / RandomSteps for a random in RandomDraws:
\* a number in [0, 1).
RandomSteps == 6

RandomDraws == 0..(RandomSteps - 1)

playRoundSteps12Cheat(playerResult, random) ==
  LET computerGesture == CHOOSE g \in Gesture : wins[g] = playerResult.gesture
  IN [prediction |-> playerResult,
      computerChoice |-> computerGesture,
      gameResult |-> determineWinner(playerResult.gesture, computerGesture)]

\* STEPS 2 and 3 of playRound for the player's prediction and the number
\* Math.random() returned:
\* CLASSES[Math.floor(Math.random() * CLASSES.length)], then determineWinner.
playRoundSteps12(playerResult, random) ==
  LET computerGesture == CLASSES[(random * Len(CLASSES)) \div RandomSteps + 1]
  IN [prediction |-> playerResult,
      computerChoice |-> computerGesture,
      gameResult |-> determineWinner(playerResult.gesture, computerGesture)]

\* The computer gestures a round with this prediction can draw.
ComputerGestures(playerResult) ==
  {playRoundSteps12(playerResult, random).computerChoice : random \in RandomDraws}

(* ------------------------------ the state ------------------------------ *)

NoRegion == [kind |-> "none", sx |-> 0, sy |-> 0, sw |-> 0, sh |-> 0]
NoDims == <<0, 0>>

\* The last step of a round, with the round's inputs and crop: what
\* hands.send delivered, the frame size captured, the region handed to
\* getImageData.  Other: the last step was no step of a round.
Event(ev, send, dims, region) ==
  [ev |-> ev, send |-> send, dims |-> dims, region |-> region]

Other == Event("other", "none", NoDims, NoRegion)

\* No function application: the value of call in the component's own
\* specification.
NoCall == [fn |-> "none"]

\* useState initial values (no optional value is null: an absent value is
\* the empty sequence or the string "null").
InitialState ==
  [ model |-> FALSE,
    isModelLoading |-> TRUE,
    isCameraActive |-> FALSE,
    currentPrediction |-> << >>,
    computerChoice |-> "null",
    gameResult |-> "null",
    score |-> [player |-> 0, computer |-> 0, ties |-> 0],
    isPlaying |-> FALSE,
    hands |-> << >>,
    handDetected |-> FALSE,
    handBoundingBox |-> << >> ]

\* The values playRound, predictGesture and the interval callback of one
\* render close over: the dependency lists of the two useCallbacks and of
\* the auto-play effect.
Closure(s) ==
  [ isCameraActive |-> s.isCameraActive,
    isPlaying |-> s.isPlaying,
    score |-> s.score,
    model |-> s.model,
    hands |-> s.hands,
    handDetected |-> s.handDetected,
    handBoundingBox |-> s.handBoundingBox ]

\* The video and canvas elements exist once the main UI (not the loading
\* screen) is rendered.
refsAttached == ~st.isModelLoading

Init ==
  /\ st = InitialState
  \* the mount effect ran initializeHandDetection: setHands is queued,
  \* unless the Hands constructor was unavailable
  /\ \E h \in {<< >>, initializeHandDetection} :
       nx = [InitialState EXCEPT !.hands = h]
  /\ timer = << >>
  /\ rounds = EmptyBag
  /\ srcObject = FALSE
  /\ gum = 0
  /\ started = 0
  /\ resolved = 0
  /\ aborted = 0
  /\ last = Other
  /\ call = NoCall

(* ------------------------- React: render, effects ---------------------- *)

\* The auto-play effect: clearInterval of the previous interval, then
\* setInterval with this render's callback when the camera is active.
autoPlayEffectCameraOff(s) ==
  IF ~s.isCameraActive THEN <<Closure(s)>> ELSE << >>

autoPlayEffect(s) ==
  IF s.isCameraActive THEN <<Closure(s)>> ELSE << >>

\* What a render commits.  No callback and no condition of the component
\* reads the three display cells (they are only shown), so the committed
\* copy of them is not kept: what a render shows of them is nx's value.
Committed(n) ==
  [n EXCEPT !.currentPrediction = << >>,
            !.computerChoice = "null",
            !.gameResult = "null"]

\* A render commits the queued updates and creates the callbacks that
\* close over them; when a dependency of the auto-play effect changed, the
\* effect runs again.  (An interval re-installed with the same values is
\* the same interval here: the model has no clock.)
Render ==
  /\ UNCHANGED call
  /\ Committed(nx) # st
  /\ st' = Committed(nx)
  /\ timer' = IF Closure(nx) # Closure(st) THEN autoPlayEffect(nx) ELSE timer
  /\ last' = Other
  /\ UNCHANGED <<nx, rounds, srcObject, gum, started, resolved, aborted>>

(* ------------------------------ model load ----------------------------- *)

\* loadModel: the artifact loads and setModel(loadedModel) runs, or the
\* load fails and setModel(demoModel) runs; then setIsModelLoading(false).
\* The model cell records that a model object is held.
loadModelNoFallback(n, loaded) ==
  [n EXCEPT !.model = loaded, !.isModelLoading = FALSE]

loadModel(n, loaded) ==
  [n EXCEPT !.model = TRUE, !.isModelLoading = FALSE]

LoadModel ==
  /\ UNCHANGED call
  /\ nx.isModelLoading
  /\ \E loaded \in BOOLEAN :
       /\ nx' = loadModel(nx, loaded)
       /\ last' = Event(IF loaded THEN "modelLoaded" ELSE "modelFallback",
                        "none", NoDims, NoRegion)
  /\ UNCHANGED <<st, timer, rounds, srcObject, gum,
                 started, resolved, aborted>>

(* -------------------------------- camera ------------------------------- *)

\* Click on "Start Camera" (shown while the camera is not active):
\* getUserMedia is requested.
StartCamera ==
  /\ UNCHANGED call
  /\ refsAttached
  /\ ~st.isCameraActive
  /\ gum < MaxPendingStarts
  /\ gum' = gum + 1
  /\ last' = Other
  /\ UNCHANGED <<st, nx, timer, rounds, srcObject,
                 started, resolved, aborted>>

\* getUserMedia resolved: the stream is attached, the camera is active.
GumResolve ==
  /\ UNCHANGED call
  /\ gum > 0
  /\ gum' = gum - 1
  /\ IF refsAttached
       THEN /\ srcObject' = TRUE
            /\ nx' = [nx EXCEPT !.isCameraActive = TRUE]
       ELSE UNCHANGED <<srcObject, nx>>
  /\ last' = Other
  /\ UNCHANGED <<st, timer, rounds, started, resolved, aborted>>

\* startCamera's catch block: console.error and alert; no state is set.
startCameraCatchSetsActive(n) == [n EXCEPT !.isCameraActive = TRUE]

startCameraCatch(n) == n

\* getUserMedia rejected: the catch block runs (the user is alerted).
GumReject ==
  /\ UNCHANGED call
  /\ gum > 0
  /\ gum' = gum - 1
  /\ nx' = startCameraCatch(nx)
  /\ last' = Event("cameraFailed", "none", NoDims, NoRegion)
  /\ UNCHANGED <<st, timer, rounds, srcObject,
                 started, resolved, aborted>>

\* Click on "Stop Camera" (shown while the camera is active).
stopCameraResetsScore(n) ==
  [n EXCEPT !.isCameraActive = FALSE,
            !.score = [player |-> 0, computer |-> 0, ties |-> 0]]

stopCamera(n) == [n EXCEPT !.isCameraActive = FALSE]

StopCamera ==
  /\ UNCHANGED call
  /\ refsAttached
  /\ st.isCameraActive
  /\ IF srcObject THEN nx' = stopCamera(nx) ELSE UNCHANGED nx
  /\ last' = Other
  /\ UNCHANGED <<st, timer, rounds, srcObject, gum,
                 started, resolved, aborted>>

(* ------------------------------- a round ------------------------------- *)

\* The interval callback: if (!isPlaying) playRound()
intervalCalls(c) == ~c.isPlaying

\* playRound's guard: if (!isCameraActive || isPlaying) return
playRoundGuard(c) == ~(~c.isCameraActive \/ c.isPlaying)

\* setIsPlaying(true); setGameResult(null)
beginRoundKeepResult(n) == [n EXCEPT !.isPlaying = TRUE]

beginRound(n) == [n EXCEPT !.isPlaying = TRUE, !.gameResult = "null"]

onResultsKeepBox(n, outcome) ==
  IF outcome.kind = "hand"
    THEN [n EXCEPT !.handDetected = TRUE,
                   !.handBoundingBox = <<boundingBox(outcome.landmarks)>>]
    ELSE IF outcome.kind = "nohand"
      THEN [n EXCEPT !.handDetected = FALSE]
      ELSE n

\* The hand-detection callback installed by initializeHandDetection.
onResults(n, outcome) ==
  IF outcome.kind = "hand"
    THEN [n EXCEPT !.handDetected = TRUE,
                   !.handBoundingBox = <<boundingBox(outcome.landmarks)>>]
    ELSE IF outcome.kind = "nohand"
      THEN [n EXCEPT !.handDetected = FALSE, !.handBoundingBox = << >>]
      ELSE n

\* An aborted round: the early return on a null prediction, or the catch
\* block; both end with setIsPlaying(false).
abortRoundKeepPlaying(n) == n

abortRound(n) == [n EXCEPT !.isPlaying = FALSE]

\* STEPS 1-4 of playRound after a prediction, and the finally block.
resolveRoundNoScore(n, p, computerGesture) ==
  [n EXCEPT !.currentPrediction = <<p>>,
            !.computerChoice = computerGesture,
            !.gameResult = determineWinner(p.gesture, computerGesture),
            !.isPlaying = FALSE]

resolveRound(n, p, computerGesture) ==
  [n EXCEPT !.currentPrediction = <<p>>,
            !.computerChoice = computerGesture,
            !.gameResult = determineWinner(p.gesture, computerGesture),
            !.score = scoreUpdate(@, determineWinner(p.gesture, computerGesture)),
            !.isPlaying = FALSE]

\* STEP 5 of playRound: the score line written to the console, computed
\* from the score the callback closed over.
scoreLog(c, result) ==
  [player |-> c.score.player + (IF result = "win" THEN 1 ELSE 0),
   computer |-> c.score.computer + (IF result = "lose" THEN 1 ELSE 0),
   ties |-> c.score.ties + (IF result = "tie" THEN 1 ELSE 0)]

\* What model.predict can do: return a probability vector, or throw
\* (the empty sequence).
Threw == << >>
InferenceOutcomes == Probs \cup {Threw}

\* predictGesture from STEP 3 on, and the rest of playRound, for a round
\* whose callbacks closed over c, with the frame size dims captured at its
\* start; n is the queued state when the continuation runs.
FinishRound(c, dims, n, send) ==
  LET region == cropRegion(c, dims) IN
  IF send = "reject" \/ getImageDataThrows(region)
    THEN /\ nx' = abortRound(n)
         /\ aborted' = aborted + 1
         /\ resolved' = resolved
         /\ last' = Event("aborted", send, dims, region)
    ELSE \E out \in InferenceOutcomes :
           IF out = Threw
             THEN /\ nx' = abortRound(n)
                  /\ aborted' = aborted + 1
                  /\ resolved' = resolved
                  /\ last' = Event("inferenceFailed", send, dims, region)
             ELSE \E computerGesture \in ComputerGestures(prediction(out)) :
                    /\ nx' = resolveRound(n, prediction(out), computerGesture)
                    /\ resolved' = resolved + 1
                    /\ aborted' = aborted
                    /\ last' = Event("resolved", send, dims, region)

\* A tick of the interval installed by the auto-play effect.  Its callback
\* and the playRound it calls see the values of the render that installed
\* it.  The round runs up to the await of hands.send; without a hand
\* locator nothing is awaited and the round runs to its end.
Tick ==
  /\ UNCHANGED call
  /\ timer # << >>
  /\ LET c == timer[1] IN
     IF ~(intervalCalls(c) /\ playRoundGuard(c))
       THEN /\ last' = Other
            /\ UNCHANGED <<st, nx, timer, rounds, srcObject,
                           gum, started, resolved, aborted>>
       ELSE /\ started < MaxRounds
            /\ started' = started + 1
            /\ UNCHANGED <<st, timer, srcObject, gum>>
            /\ \E ctxOk \in BOOLEAN, dims \in VideoDims :
                 IF ~c.model \/ ~refsAttached \/ ~ctxOk
                   THEN /\ nx' = abortRound(beginRound(nx))
                        /\ aborted' = aborted + 1
                        /\ last' = Event("predictedNull", "none", NoDims, NoRegion)
                        /\ UNCHANGED <<rounds, resolved>>
                   ELSE IF c.hands # << >>
                     THEN /\ BagCardinality(rounds) < MaxInFlight
                          /\ rounds' = rounds (+) SetToBag({[c |-> c, dims |-> dims]})
                          /\ nx' = beginRound(nx)
                          /\ last' = Event("roundStarted", "none", dims, NoRegion)
                          /\ UNCHANGED <<resolved, aborted>>
                     ELSE /\ FinishRound(c, dims, beginRound(nx), "none")
                          /\ UNCHANGED rounds

\* hands.send settles for a waiting round: the onResults callback ran (or
\* the promise rejected), and the round's continuation runs to its end.
SendCompletes ==
  /\ UNCHANGED call
  /\ \E r \in BagToSet(rounds), outcome \in SendOutcomes :
       /\ rounds' = rounds (-) SetToBag({r})
       /\ FinishRound(r.c, r.dims, onResults(nx, outcome), outcome.kind)
       /\ UNCHANGED <<st, timer, srcObject, gum, started>>

Next ==
  \/ LoadModel
  \/ Render
  \/ StartCamera
  \/ GumResolve
  \/ GumReject
  \/ StopCamera
  \/ Tick
  \/ SendCompletes

Spec == Init /\ [][Next]_vars

\* The scheduling the browser and React guarantee: an installed interval
\* keeps firing, a queued update is eventually rendered, and (the proviso
\* of the termination claims) a call to hands.send settles.
Fairness ==
  /\ WF_vars(Tick)
  /\ WF_vars(Render)
  /\ WF_vars(SendCompletes)

SpecFair == Spec /\ Fairness

(* ------------------- the arg-max of the two paths ---------------------- *)

\* Probabilities are tenths; a vector's entries sum to MaxProb tenths.
MaxProb == 10

ProbVectors ==
  {p \in (0..MaxProb) \X (0..MaxProb) \X (0..MaxProb) : p[1] + p[2] + p[3] = MaxProb}

\* The component takes no step in the specifications of the functions.
appVars == <<st, nx, timer, rounds, srcObject, gum,
             started, resolved, aborted, last>>

AppAtRest ==
  /\ st = InitialState
  /\ nx = InitialState
  /\ timer = << >>
  /\ rounds = EmptyBag
  /\ srcObject = FALSE
  /\ gum = 0
  /\ started = 0
  /\ resolved = 0
  /\ aborted = 0
  /\ last = Other

\* model.predict(tensor).dataSync() returned the probabilities p.
InitArgmax ==
  /\ AppAtRest
  /\ \E p \in ProbVectors : call = [fn |-> "dataSync", p |-> p]

\* STEP 7 of predictGesture (browser path).
PredictGestureArgmax ==
  /\ call.fn = "dataSync"
  /\ call' = [fn |-> "predictGesture", p |-> call.p, out |-> prediction(call.p)]
  /\ UNCHANGED appVars

\* predict of predict.ts (Node path).
PredictArgmax ==
  /\ call.fn = "dataSync"
  /\ call' = [fn |-> "predict", p |-> call.p, out |-> predict(call.p)]
  /\ UNCHANGED appVars

NextArgmax ==
  \/ PredictGestureArgmax
  \/ PredictArgmax

SpecArgmax == InitArgmax /\ [][NextArgmax]_vars

(* ------------- preprocessing: training and inference paths ------------- *)

\* Width and height of the images (or crops) handed to preprocessing.
MaxImage == 5

ImageDims == (1..MaxImage) \X (1..MaxImage)

\* sharp(imgBuffer).resize(w, h).raw().toBuffer() of a 3-channel image: the
\* length of the buffer.
sharpResize(image, w, h) == w * h * 3

\* tf.tensor3d(values, shape): the tensor's shape; it throws when the
\* number of values is not the size of the shape.
tensor3d(len, shape) ==
  IF len = shape[1] * shape[2] * shape[3] THEN shape ELSE <<"throws">>

\* tf.browser.fromPixels of the ImageData read back from a canvas of the
\* given width and height onto which the crop was drawn scaled.
fromPixels(canvasWidth, canvasHeight) == <<canvasHeight, canvasWidth, 3>>

\* loadImages and createModel of rps-model/src/train.ts
trainLoadImages(image) == tensor3d(sharpResize(image, 64, 64), <<64, 64, 3>>)
trainInputShape == <<64, 64, 3>>

\* loadImages and createModel of the fast training script
fastLoadImages(image) == tensor3d(sharpResize(image, 16, 16), <<16, 16, 3>>)
fastInputShape == <<16, 16, 3>>

\* predict and createModel of rps-model/src/predict.ts
predictTensor(image) == tensor3d(sharpResize(image, 16, 16), <<16, 16, 3>>)
createModelInputShape == <<16, 16, 3>>

\* STEPS 4-5 of predictGesture, and the demo model of loadModel
predictGestureTensor(image) == fromPixels(16, 16)
demoModel == [inputShape |-> <<16, 16, 3>>, units |-> Len(CLASSES)]

\* An image is handed to one of the four paths.
InitImage ==
  /\ AppAtRest
  /\ \E image \in ImageDims : call = [fn |-> "image", image |-> image]

\* The outcome of a path for the image handed to it: the tensor it feeds
\* to a model, and the input shape of the model the path's script builds.
Preprocessed(fn, tensor, inputShape) ==
  [fn |-> fn, image |-> call.image, tensor |-> tensor, inputShape |-> inputShape]

TrainLoadImages ==
  /\ call.fn = "image"
  /\ call' = Preprocessed("train.loadImages", trainLoadImages(call.image),
                          trainInputShape)
  /\ UNCHANGED appVars

FastLoadImages ==
  /\ call.fn = "image"
  /\ call' = Preprocessed("fast.loadImages", fastLoadImages(call.image),
                          fastInputShape)
  /\ UNCHANGED appVars

PredictPreprocess ==
  /\ call.fn = "image"
  /\ call' = Preprocessed("predict", predictTensor(call.image),
                          createModelInputShape)
  /\ UNCHANGED appVars

PredictGesturePreprocess ==
  /\ call.fn = "image"
  /\ call' = Preprocessed("predictGesture", predictGestureTensor(call.image),
                          demoModel.inputShape)
  /\ UNCHANGED appVars

NextImage ==
  \/ TrainLoadImages
  \/ FastLoadImages
  \/ PredictPreprocess
  \/ PredictGesturePreprocess

SpecImage == InitImage /\ [][NextImage]_vars

(* ------------- the bounding box of the results callback ---------------- *)

\* Landmarks in one result of the hand locator.
MaxLandmarks == 2

\* Landmark coordinates in thousandths of the frame; the locator also
\* reports landmarks outside the frame (below 0, above 1000).
Coords == {-200, 0, 250, 500, 1000, 1200}

RECURSIVE LandmarksUpTo(_)
LandmarksUpTo(n) ==
  IF n = 0 THEN {NoHand}
  ELSE {L \cup {l} : L \in LandmarksUpTo(n - 1), l \in Coords \X Coords}

\* results.multiHandLandmarks[0] of a result: the landmarks of a hand (at
\* least one), or NoHand when there is none.
InitBox ==
  /\ AppAtRest
  /\ \E L \in LandmarksUpTo(MaxLandmarks) \cup {NoHand} :
       call = [fn |-> "results", landmarks |-> L]

\* The results callback runs on a result with a hand.
OnResultsHand ==
  /\ call.fn = "results"
  /\ call.landmarks # NoHand
  /\ call' = [fn |-> "onResults", landmarks |-> call.landmarks,
              handBoundingBox |->
                onResults(nx, [kind |-> "hand", landmarks |-> call.landmarks]).handBoundingBox]
  /\ UNCHANGED appVars

\* The results callback runs on a result without a hand.
OnResultsNoHand ==
  /\ call.fn = "results"
  /\ call.landmarks = NoHand
  /\ call' = [fn |-> "onResults", landmarks |-> call.landmarks,
              handBoundingBox |->
                onResults(nx, [kind |-> "nohand", landmarks |-> NoHand]).handBoundingBox]
  /\ UNCHANGED appVars

NextBox ==
  \/ OnResultsHand
  \/ OnResultsNoHand

SpecBox == InitBox /\ [][NextBox]_vars

(* --------------------- the computer's move, alone ---------------------- *)

\* predictGesture returned a prediction, and Math.random() will return
\* random / RandomSteps.
InitMove ==
  /\ AppAtRest
  /\ \E p \in ProbVectors, random \in RandomDraws :
       call = [fn |-> "playerResult", playerResult |-> prediction(p), random |-> random]

\* STEPS 2 and 3 of playRound.
ComputerMoves ==
  /\ call.fn = "playerResult"
  /\ call' = [fn |-> "playRound", playerResult |-> call.playerResult,
              random |-> call.random,
              out |-> playRoundSteps12(call.playerResult, call.random)]
  /\ UNCHANGED appVars

NextMove ==
  \/ ComputerMoves

SpecMove == InitMove /\ [][NextMove]_vars

(* ----------------------- the training scripts -------------------------- *)

\* The class lists of rps-model/src/train.ts and of the fast training
\* script.
trainCLASSES == <<"rock", "paper", "scissors">>
fastCLASSES == <<"rock", "paper", "scissors">>

\* PNG files in the largest folder of a drawn dataset.
MaxFolder == 34

\* A file of a folder: its name is stem followed by ext.
PngFile(k) == [stem |-> k, ext |-> ".png"]
OtherFiles == <<[stem |-> 0, ext |-> ".jpg"], [stem |-> 0, ext |-> ".PNG"]>>

\* A dataset folder: absent, or present with the files readdirSync lists.
MissingFolder == [exists |-> FALSE, files |-> << >>]

Folder(files) == [exists |-> TRUE, files |-> files]

Folders ==
  {MissingFolder}
    \cup {Folder([k \in 1..n |-> PngFile(k)]) : n \in {0, 2, MaxFolder}}
    \cup {Folder(OtherFiles \o [k \in 1..n |-> PngFile(k)]) : n \in {2, MaxFolder}}

\* A dataset: what is found under each of the three folder names.
FolderNames == {"rock", "paper", "scissors"}

Datasets == [FolderNames -> Folders]

\* file.endsWith(".png")
endsWithPng(file) == file.ext = ".png"

\* The files of a listing that pass the filter, in order.
pngFiles(files) == SelectSeq(files, endsWithPng)

firstMissingUnchecked(classes, dataset, i) == 0

\* The first class (in the order of classes) whose folder does not exist;
\* 0 when every folder exists.
RECURSIVE firstMissing(_, _, _)
firstMissing(classes, dataset, i) ==
  IF i > Len(classes) THEN 0
  ELSE IF ~dataset[classes[i]].exists THEN i
  ELSE firstMissing(classes, dataset, i + 1)

\* The items the loops of loadImages push for the classes from i on: one
\* per file that ends in .png, labelled with the 0-based index of its
\* folder's class.
RECURSIVE dataItemsLabelFromOne(_, _, _)
dataItemsLabelFromOne(classes, dataset, i) ==
  IF i > Len(classes) THEN << >>
  ELSE [k \in 1..Len(pngFiles(dataset[classes[i]].files)) |->
          [path |-> <<classes[i], pngFiles(dataset[classes[i]].files)[k]>>,
           label |-> i]]
       \o dataItemsLabelFromOne(classes, dataset, i + 1)

RECURSIVE dataItems(_, _, _)
dataItems(classes, dataset, i) ==
  IF i > Len(classes) THEN << >>
  ELSE [k \in 1..Len(pngFiles(dataset[classes[i]].files)) |->
          [path |-> <<classes[i], pngFiles(dataset[classes[i]].files)[k]>>,
           label |-> i - 1]]
       \o dataItems(classes, dataset, i + 1)

\* The k-th number (k from 0) a run with this seed gets from Math.random(),
\* in RandomDraws.
draw(seed, k) == (seed * (k + 1)) % RandomSteps

\* One pass of shuffle's loop body for the index i (0-based), nothing for
\* i <= 0 (the loop has ended):
\* j = Math.floor(Math.random() * (i + 1)); swap array[i], array[j].
swapNoSwap(array, i, seed) ==
  IF i <= 0 THEN array
  ELSE LET j == (draw(seed, Len(array) - 1 - i) * (i + 1)) \div RandomSteps
       IN [array EXCEPT ![i + 1] = array[j + 1]]

swap(array, i, seed) ==
  IF i <= 0 THEN array
  ELSE LET j == (draw(seed, Len(array) - 1 - i) * (i + 1)) \div RandomSteps
       IN [array EXCEPT ![i + 1] = array[j + 1], ![j + 1] = array[i + 1]]

\* shuffle(array): the loop from i down to 1 (the loop also ends on an
\* empty array).
RECURSIVE shuffle(_, _, _)
shuffle(array, i, seed) ==
  IF Len(array) = 0 \/ i <= 0 THEN array
  ELSE shuffle(swap(array, i, seed), i - 1, seed)

\* array.slice(from, to), 0-based, to exclusive
slice(array, from, to) == SubSeq(array, from + 1, Min(to, Len(array)))

\* The subset and the split of the fast script's loadImages.
subsetCap == 100
valSplitDiv == 5

splitOverlapping(shuffled) ==
  LET subsetSize == Min(subsetCap, Len(shuffled))
      subsetItems == slice(shuffled, 0, subsetSize)
      valSize == Len(subsetItems) \div valSplitDiv
  IN [subsetItems |-> subsetItems,
      valItems |-> slice(subsetItems, 0, valSize),
      trainItems |-> subsetItems]

split(shuffled) ==
  LET subsetSize == Min(subsetCap, Len(shuffled))
      subsetItems == slice(shuffled, 0, subsetSize)
      valSize == Len(subsetItems) \div valSplitDiv
  IN [subsetItems |-> subsetItems,
      valItems |-> slice(subsetItems, 0, valSize),
      trainItems |-> slice(subsetItems, valSize, Len(subsetItems))]

\* A training script is run on a dataset; seed decides what Math.random()
\* returns during the run (only the fast script calls it).
NotRun == [error |-> << >>, dataItems |-> << >>, shuffled |-> << >>,
           subsetItems |-> << >>, valItems |-> << >>, trainItems |-> << >>,
           model |-> "none"]

InitTrain ==
  /\ AppAtRest
  /\ \E dataset \in Datasets :
       \/ \E seed \in RandomDraws :
            call = [fn |-> "main", script |-> "fast", dataset |-> dataset,
                    seed |-> seed, run |-> NotRun]
       \/ call = [fn |-> "main", script |-> "train.ts", dataset |-> dataset,
                  seed |-> 0, run |-> NotRun]

\* loadImages of either script on a dataset with a missing folder: it
\* throws at the first one, and main ends.
loadImagesThrows(classes, dataset) ==
  [NotRun EXCEPT !.error = <<"Dataset folder not found",
                             classes[firstMissing(classes, dataset, 1)]>>]

\* loadImages of the fast script: items, shuffle, subset, split.
fastItems(dataset, seed) ==
  LET items == dataItems(fastCLASSES, dataset, 1)
      shuffled == shuffle(items, Len(items) - 1, seed)
      parts == split(shuffled)
  IN [NotRun EXCEPT !.dataItems = items, !.shuffled = shuffled,
                    !.subsetItems = parts.subsetItems,
                    !.valItems = parts.valItems,
                    !.trainItems = parts.trainItems]

\* loadImages of train.ts: every item is used for model.fit.
trainItems(dataset) ==
  LET items == dataItems(trainCLASSES, dataset, 1)
  IN [NotRun EXCEPT !.dataItems = items, !.trainItems = items]

FastMainLoadImages ==
  /\ call.fn = "main" /\ call.script = "fast"
  /\ call' = IF firstMissing(fastCLASSES, call.dataset, 1) # 0
               THEN [call EXCEPT !.fn = "threw",
                                 !.run = loadImagesThrows(fastCLASSES, call.dataset)]
               ELSE [call EXCEPT !.fn = "loaded",
                                 !.run = fastItems(call.dataset, call.seed)]
  /\ UNCHANGED appVars

TrainMainLoadImages ==
  /\ call.fn = "main" /\ call.script = "train.ts"
  /\ call' = IF firstMissing(trainCLASSES, call.dataset, 1) # 0
               THEN [call EXCEPT !.fn = "threw",
                                 !.run = loadImagesThrows(trainCLASSES, call.dataset)]
               ELSE [call EXCEPT !.fn = "loaded",
                                 !.run = trainItems(call.dataset)]
  /\ UNCHANGED appVars

\* main after loadImages returned: createModel, then fit, then save.
MainCreateModel ==
  /\ call.fn = "loaded"
  /\ call' = [call EXCEPT !.fn = "created", !.run.model = "created"]
  /\ UNCHANGED appVars

MainFit ==
  /\ call.fn = "created"
  /\ call' = [call EXCEPT !.fn = "fitted", !.run.model = "trained"]
  /\ UNCHANGED appVars

MainSave ==
  /\ call.fn = "fitted"
  /\ \E ok \in BOOLEAN :
       call' = [call EXCEPT !.fn = "ended",
                            !.run.model = IF ok THEN "saved" ELSE "trained"]
  /\ UNCHANGED appVars

NextTrain ==
  \/ FastMainLoadImages
  \/ TrainMainLoadImages
  \/ MainCreateModel
  \/ MainFit
  \/ MainSave

SpecTrain == InitTrain /\ [][NextTrain]_vars

(* ------------------------------- claims -------------------------------- *)

ScoreSum(sc) == sc.player + sc.computer + sc.ties

RoundEnded == last.ev \in {"resolved", "aborted", "inferenceFailed", "predictedNull"}

InFlight == BagCardinality(rounds)

\* The rule table of the outcome resolver: the row is the player's
\* gesture, the column the computer's.
RuleTable ==
  [p \in Gesture |-> [c \in Gesture |->
     CASE p = c -> "tie"
       [] p = "rock" /\ c = "scissors" -> "win"
       [] p = "paper" /\ c = "rock" -> "win"
       [] p = "scissors" /\ c = "paper" -> "win"
       [] OTHER -> "lose"]]

\* C1: for every pair of gestures determineWinner returns the entry of the
\* rule table, and the result a resolved round reports is that entry for
\* the round's two gestures.
C1_RuleTable ==
  /\ \A p \in Gesture, c \in Gesture : determineWinner(p, c) = RuleTable[p][c]
  /\ last.ev = "resolved" =>
       nx.gameResult = RuleTable[nx.currentPrediction[1].gesture][nx.computerChoice]

C1_Witness ==
  /\ last.ev = "resolved"
  /\ nx.currentPrediction[1].gesture = "scissors"
  /\ nx.computerChoice = "paper"
  /\ nx.gameResult = "win"

\* C2: determineWinner is antisymmetric: a beats b exactly when b loses to
\* a, and the result is a tie exactly when the gestures are equal; so the
\* result of a resolved round mirrors the result of the swapped round.
C2_Antisymmetric ==
  /\ \A a \in Gesture, b \in Gesture :
       /\ determineWinner(a, b) = "win" <=> determineWinner(b, a) = "lose"
       /\ determineWinner(a, b) = "tie" <=> a = b
  /\ last.ev = "resolved" =>
       LET a == nx.currentPrediction[1].gesture
           b == nx.computerChoice
       IN /\ nx.gameResult = "win" <=> determineWinner(b, a) = "lose"
          /\ nx.gameResult = "lose" <=> determineWinner(b, a) = "win"
          /\ nx.gameResult = "tie" <=> a = b

C2_Witness ==
  /\ last.ev = "resolved"
  /\ nx.currentPrediction[1].gesture = "rock"
  /\ nx.computerChoice = "paper"
  /\ nx.gameResult = "lose"
  /\ determineWinner("paper", "rock") = "win"

\* The Score field an outcome belongs to.
FieldOf(result) ==
  CASE result = "win" -> "player"
    [] result = "lose" -> "computer"
    [] result = "tie" -> "ties"

\* C3: a round that reaches Resolved adds exactly 1 to exactly one Score
\* field, the one of its outcome, and leaves the other two unchanged.
C3_OneFieldPlusOne ==
  [][resolved' = resolved + 1 =>
       /\ nx'.gameResult \in {"win", "lose", "tie"}
       /\ \A f \in {"player", "computer", "ties"} :
            nx'.score[f] = nx.score[f] + (IF f = FieldOf(nx'.gameResult) THEN 1 ELSE 0)]_vars

C3_Witness ==
  /\ last.ev = "resolved"
  /\ resolved = 2
  /\ nx.currentPrediction[1].gesture = "paper"
  /\ nx.computerChoice = "paper"
  /\ nx.score = [player |-> 1, computer |-> 0, ties |-> 1]

\* C4: the Score fields are natural numbers and their sum is the number of
\* rounds that reached Resolved: for the score with every queued update
\* applied in every state, and for the committed score whenever no score
\* update is pending (until then it is the sum of an earlier moment).
C4_ScoreCountsResolved ==
  /\ \A f \in {"player", "computer", "ties"} : nx.score[f] \in Nat /\ st.score[f] \in Nat
  /\ ScoreSum(nx.score) = resolved
  /\ ScoreSum(st.score) <= resolved
  /\ st = Committed(nx) => ScoreSum(st.score) = resolved

C4_Witness ==
  /\ resolved = 1
  /\ aborted = 1
  /\ srcObject
  /\ ~nx.isCameraActive
  /\ st = Committed(nx)
  /\ ScoreSum(st.score) = 1

\* C5: no step makes a Score field smaller, in the queued and in the
\* committed score.
C5_ScoreMonotone ==
  [][\A f \in {"player", "computer", "ties"} :
       nx'.score[f] >= nx.score[f] /\ st'.score[f] >= st.score[f]]_vars

C5_Witness ==
  /\ last.ev = "other"
  /\ st.score.player = 1
  /\ srcObject
  /\ ~st.isCameraActive
  /\ nx.isCameraActive
  /\ aborted = 1

\* C6: at most one round is in flight at any time.
C6_AtMostOneInFlight == InFlight <= 1

\* C7: a round-start trigger issued while a round is in flight is dropped:
\* it starts no round body.
C7_SecondTriggerDropped ==
  [][InFlight >= 1 => started' = started]_vars

\* C8: a round starts only while the camera is active: after stopCamera
\* (isCameraActive set to false) no round starts until startCamera has
\* succeeded again.
C8_StartsOnlyWithCamera ==
  [][started' = started + 1 => nx.isCameraActive]_vars

\* C9: a round that fails aborts with Score unchanged, the in-flight guard
\* released, the controller idle (no round in flight) and no outcome
\* reported (gameResult null).
C9_AbortLeavesIdle ==
  [][aborted' = aborted + 1 =>
       /\ nx'.score = nx.score
       /\ ~nx'.isPlaying
       /\ rounds' = EmptyBag
       /\ nx'.gameResult = "null"]_vars

\* The fallback region: the centered square whose side is 60% of the
\* shorter frame dimension.
FallbackRegion(w, h) ==
  LET side == (6 * Min(w, h)) \div 10
  IN [kind |-> "center", sx |-> (w - side) \div 2, sy |-> (h - side) \div 2,
      sw |-> side, sh |-> side]

\* C10: a round in which no hand was located and whose captured frame has
\* non-zero width and height crops the fallback region, which lies inside
\* the frame, and goes on to classification.
C10_NoHandUsesFallback ==
  (RoundEnded /\ last.send = "nohand" /\ last.dims[1] > 0 /\ last.dims[2] > 0) =>
    /\ last.region = FallbackRegion(last.dims[1], last.dims[2])
    /\ last.region.sx >= 0 /\ last.region.sx + last.region.sw <= last.dims[1]
    /\ last.region.sy >= 0 /\ last.region.sy + last.region.sh <= last.dims[2]
    /\ last.ev \in {"resolved", "inferenceFailed"}

\* The region the hand locator's result for a round's own frame decides:
\* the box it stored for that frame when it found a hand (the queued
\* handBoundingBox right after the round's onResults), the center region
\* when it found none.
RegionOfThisRound(n, send, dims) ==
  IF send = "hand"
    THEN handRegion(n.handBoundingBox[1], dims[1], dims[2])
    ELSE centerRegion(dims[1], dims[2])

\* C11: the region a round crops is decided by the hand locator's result
\* for that round's own frame (the detected box when a hand was found, the
\* center region when not), never by the result of an earlier round or
\* render.
C11_RegionFromThisRound ==
  (RoundEnded /\ last.send \in {"hand", "nohand"}) =>
    last.region = RegionOfThisRound(nx, last.send, last.dims)

\* C12: a degenerate crop region (zero width or height) reaches no
\* classification, and the round falls back to the center region: a round
\* with a non-empty frame whose hand locator answered is not aborted by
\* its crop, and the region it ends with is not degenerate.
C12_DegenerateFallsBack ==
  (RoundEnded /\ last.send \in {"hand", "nohand"}
     /\ last.dims[1] > 0 /\ last.dims[2] > 0) =>
    /\ ~getImageDataThrows(last.region)
    /\ last.ev \in {"resolved", "inferenceFailed"}

\* i is the arg-max index of p: no entry is larger, and every entry before
\* it is smaller (the first index on ties).
IsFirstMax(p, i) ==
  /\ \A j \in 1..Len(p) : p[j] <= p[i]
  /\ \A j \in 1..(i - 1) : p[j] < p[i]

\* C13: for every probability vector of length 3 the predicted gesture is
\* the class at the arg-max index in the order rock, paper, scissors (the
\* first index on ties), the confidence is the entry at that index, the
\* browser path and the Node path choose the same class, and the class is
\* one of the three gestures.
C13_ArgMax ==
  /\ call.fn = "predictGesture" =>
       /\ call.out.gesture \in {"rock", "paper", "scissors"}
       /\ \E i \in 1..3 :
            /\ IsFirstMax(call.p, i)
            /\ call.out.gesture = <<"rock", "paper", "scissors">>[i]
            /\ call.out.confidence = call.p[i]
       /\ predict(call.p).predictedClass = call.out.gesture
  /\ call.fn = "predict" =>
       /\ call.out.predictedClass \in {"rock", "paper", "scissors"}
       /\ \E i \in 1..3 :
            /\ IsFirstMax(call.p, i)
            /\ call.out.predictedClass = <<"rock", "paper", "scissors">>[i]
       /\ prediction(call.p).gesture = call.out.predictedClass

C13_Witness ==
  /\ call.fn = "predictGesture"
  /\ call.p[1] < call.p[2]
  /\ call.p[2] = call.p[3]
  /\ call.out.gesture = "paper"
  /\ call.out.confidence = call.p[2]

\* C14: when loading the model artifact fails, a fallback classifier with
\* the input shape of the inference tensor and a 3-way output is
\* substituted; once loading has finished (either way) a model is held and
\* the loading flag is cleared, in the queued and in the committed state,
\* and every round body runs with a model.
C14_ModelAlwaysAvailable ==
  /\ demoModel.inputShape = <<16, 16, 3>> /\ demoModel.units = 3
  /\ \A image \in ImageDims : predictGestureTensor(image) = demoModel.inputShape
  /\ last.ev \in {"modelLoaded", "modelFallback"} =>
       nx.model /\ ~nx.isModelLoading
  /\ ~nx.isModelLoading => nx.model
  /\ ~st.isModelLoading => st.model
  /\ timer # << >> => timer[1].model
  /\ \A r \in BagToSet(rounds) : r.c.model

C14_Witness ==
  /\ last.ev = "modelFallback"
  /\ nx.model
  /\ ~nx.isModelLoading
  /\ st.isModelLoading

\* C15: one image size N is shared end to end: each training script
\* resizes to, and builds its model for, the size the inference paths
\* resize to.
C15_OneImageSize ==
  call.fn \in {"train.loadImages", "fast.loadImages", "predict", "predictGesture"} =>
    /\ call.tensor = predictTensor(call.image)
    /\ call.tensor = predictGestureTensor(call.image)
    /\ call.inputShape = call.tensor

\* Idle with the camera active: the camera is on and no round is in flight.
IdleCameraActive == nx.isCameraActive /\ InFlight = 0

\* C16: under fairness of the timer (and of rendering), from Idle with the
\* camera active a new round is eventually started, unless the camera is
\* stopped first.  (k ranges over the rounds the bound allows to start.)
C16_IdleLeadsToRound ==
  \A k \in 0..(MaxRounds - 1) :
    (IdleCameraActive /\ started = k) ~> (started > k \/ ~nx.isCameraActive)

C16_Witness ==
  /\ last.ev = "roundStarted"
  /\ started = 2
  /\ InFlight = 1
  /\ resolved = 1
  /\ nx.isCameraActive

\* C17: provided every awaited call settles, every started round ends, and
\* it ends with the guard released (isPlaying false) and without starting
\* a round itself; with no round in flight the guard is not set, so the
\* next trigger rendered can start a round.
C17_RoundsEnd ==
  /\ [](started = resolved + aborted + InFlight)
  /\ [](InFlight = 0 => ~nx.isPlaying)
  /\ [][resolved' + aborted' > resolved + aborted =>
          /\ ~nx'.isPlaying
          /\ resolved' + aborted' = resolved + aborted + 1
          /\ (started' = started \/ InFlight' = InFlight)]_vars
  /\ \A k \in 1..MaxRounds : (started >= k) ~> (resolved + aborted >= k)

C17_Witness ==
  /\ last.ev = "aborted"
  /\ last.send = "reject"
  /\ started = 1
  /\ aborted = 1
  /\ InFlight = 0
  /\ ~nx.isPlaying

\* C18: when getUserMedia rejects, startCamera's catch block alerts the
\* user and changes nothing: isCameraActive, the Score, the guard, the
\* interval and the rounds are as before.  No interval exists while the
\* committed isCameraActive is false, an interval is installed only after
\* a startCamera succeeded, and a round is started only by an interval
\* whose callback saw the camera active: so after a failed start no round
\* starts until a later startCamera succeeds.
C18_FailedStartChangesNothing ==
  /\ [][last'.ev = "cameraFailed" =>
          /\ nx' = nx /\ st' = st
          /\ timer' = timer /\ rounds' = rounds /\ srcObject' = srcObject
          /\ started' = started /\ resolved' = resolved /\ aborted' = aborted]_vars
  /\ [](~st.isCameraActive => timer = << >>)
  /\ [][(timer = << >> /\ timer' # << >>) => (nx.isCameraActive /\ srcObject)]_vars
  /\ [][started' > started =>
          (timer # << >> /\ timer[1].isCameraActive /\ srcObject)]_vars

C18_Witness ==
  /\ last.ev = "cameraFailed"
  /\ ~nx.isCameraActive
  /\ ~st.isCameraActive
  /\ ~srcObject
  /\ timer = << >>
  /\ started = 0
  /\ gum = 0

\* A hand locator instance that has its options and its results callback.
Configured(handsInstance) ==
  /\ handsInstance.options =
       <<[maxNumHands |-> 1, modelComplexity |-> 0,
          minDetectionConfidence |-> 5, minTrackingConfidence |-> 5]>>
  /\ handsInstance.onResults

\* The hands values a callback can see: committed, queued, and those the
\* interval callback and the waiting rounds closed over.
VisibleHands ==
  {st.hands, nx.hands}
    \cup {timer[i].hands : i \in 1..Len(timer)}
    \cup {r.c.hands : r \in BagToSet(rounds)}

\* C19: the hand locator is configured once (one hand at most, fixed
\* confidence thresholds) before it becomes visible to predictGesture:
\* every instance a callback can see has its options and its results
\* callback, a frame is sent only to such an instance, and the queued
\* instance is never replaced or reconfigured after the mount.
C19_LocatorConfiguredOnce ==
  /\ [](\A h \in VisibleHands : h # << >> => Configured(h[1]))
  /\ [](\A r \in BagToSet(rounds) : r.c.hands # << >> /\ Configured(r.c.hands[1]))
  /\ [][nx'.hands = nx.hands]_vars

C19_Witness ==
  /\ last.ev = "roundStarted"
  /\ InFlight = 1
  /\ \E r \in BagToSet(rounds) :
       /\ r.c.hands # << >>
       /\ r.c.hands[1].options[1].maxNumHands = 1
       /\ r.c.hands[1].onResults

\* C20: for every non-empty set of landmarks, each of x, y, width and
\* height of the bounding region the results callback stores (after the
\* 10% padding) lies within [0, 1] (0..1000 thousandths).
C20_BoxInUnitRange ==
  (call.fn = "onResults" /\ call.landmarks # {}) =>
    /\ Len(call.handBoundingBox) = 1
    /\ \A f \in {"x", "y", "width", "height"} :
         call.handBoundingBox[1][f] >= 0 /\ call.handBoundingBox[1][f] <= 1000

C20_Witness ==
  /\ call.fn = "onResults"
  /\ call.landmarks = {<<-200, 250>>, <<1200, 500>>}
  /\ call.handBoundingBox[1] = [x |-> 0, y |-> 225, width |-> 1000, height |-> 300]

\* The states a callback can read: committed, queued, and the values the
\* interval callback and the waiting rounds closed over.
VisibleStates ==
  {st, nx} \cup {timer[i] : i \in 1..Len(timer)} \cup {r.c : r \in BagToSet(rounds)}

\* C27: after every hand-detection callback handDetected is true exactly
\* when handBoundingBox is non-null (a result with a hand sets the flag
\* and a box, a result without a hand clears both), in every state a
\* callback can read.
C27_FlagIffBox ==
  \A s \in VisibleStates : s.handDetected <=> (s.handBoundingBox # << >>)

C27_Witness ==
  /\ RoundEnded
  /\ last.send = "nohand"
  /\ ~nx.handDetected
  /\ nx.handBoundingBox = << >>
  /\ st.handDetected
  /\ st.handBoundingBox # << >>

\* C28: the padded bounding region of landmarks that lie in the frame
\* stays inside the frame (x + width <= 1, y + height <= 1) and covers
\* every landmark.
C28_BoxInsideFrame ==
  (/\ call.fn = "onResults"
   /\ call.landmarks # {}
   /\ \A l \in call.landmarks : l[1] \in 0..1000 /\ l[2] \in 0..1000) =>
    LET box == call.handBoundingBox[1] IN
    /\ box.x + box.width <= 1000
    /\ box.y + box.height <= 1000
    /\ \A l \in call.landmarks :
         /\ box.x <= l[1] /\ l[1] <= box.x + box.width
         /\ box.y <= l[2] /\ l[2] <= box.y + box.height

\* C25: the computer's move of a round is one of the three gestures; it
\* is the same for every prediction of the player (gesture and
\* confidence) under the same random draw; and for every gesture of the
\* player each of the three moves is the result of some draw.
C25_MoveIndependentOfPlayer ==
  call.fn = "playRound" =>
    /\ call.out.computerChoice \in {"rock", "paper", "scissors"}
    /\ \A p \in ProbVectors :
         playRoundSteps12(prediction(p), call.random).computerChoice
           = call.out.computerChoice
    /\ \A g \in {"rock", "paper", "scissors"} :
         \E random \in RandomDraws :
           playRoundSteps12(call.playerResult, random).computerChoice = g

C25_Witness ==
  /\ call.fn = "playRound"
  /\ call.playerResult.gesture = "rock"
  /\ call.out.computerChoice = "paper"
  /\ call.out.gameResult = "lose"

\* C26: whenever a result is set, a prediction and a computer choice are
\* set too and the result is determineWinner of those two; and a round
\* that starts clears the result, so no earlier result stands beside a
\* later round's gestures.
C26_DisplayConsistent ==
  /\ [](nx.gameResult # "null" =>
          /\ nx.currentPrediction # << >>
          /\ nx.computerChoice # "null"
          /\ nx.gameResult
               = determineWinner(nx.currentPrediction[1].gesture, nx.computerChoice))
  /\ [][(started' > started /\ last'.ev \in {"roundStarted", "predictedNull"}) =>
          nx'.gameResult = "null"]_vars

C26_Witness ==
  /\ last.ev = "roundStarted"
  /\ started = 2
  /\ resolved = 1
  /\ nx.gameResult = "null"
  /\ nx.currentPrediction # << >>
  /\ nx.computerChoice = "scissors"

\* The values the playRound callback of the round finished by this step
\* closed over: those of the waiting round whose hands.send settled, or
\* those of the interval's callback when the round ran without awaiting.
finishedClosure ==
  IF rounds' = rounds
    THEN timer[1]
    ELSE (CHOOSE r \in BagToSet(rounds) : rounds' = rounds (-) SetToBag({r})).c

\* C21: after every resolved round the score written to the console for
\* that round equals, field by field, the Score state after that round's
\* update.
C21_LogMatchesScore ==
  [][resolved' = resolved + 1
       => scoreLog(finishedClosure, nx'.gameResult) = nx'.score]_vars

\* The PNG files of a dataset, as (folder name, file) pairs.
PngPaths(dataset) ==
  UNION { {<<f, dataset[f].files[k]>> :
             k \in {i \in 1..Len(dataset[f].files) : dataset[f].files[i].ext = ".png"}} :
          f \in {"rock", "paper", "scissors"} }

SeqSet(seq) == {seq[k] : k \in 1..Len(seq)}

Ran == call.fn \in {"threw", "loaded", "created", "fitted", "ended"}

\* C22: in both training scripts, when one of the three class folders is
\* missing loadImages fails with 'Dataset folder not found' (for the first
\* missing one) and no model is created, trained or saved; with all three
\* present it does not fail.
C22_MissingFolderStopsTraining ==
  Ran =>
    IF \E f \in {"rock", "paper", "scissors"} : ~call.dataset[f].exists
      THEN /\ call.fn = "threw"
           /\ Len(call.run.error) = 2
           /\ call.run.error[1] = "Dataset folder not found"
           /\ ~call.dataset[call.run.error[2]].exists
           /\ call.run.model = "none"
           /\ call.run.trainItems = << >>
      ELSE /\ call.fn # "threw"
           /\ call.run.error = << >>

C22_Witness ==
  /\ call.fn = "threw"
  /\ call.script = "train.ts"
  /\ Len(call.dataset["rock"].files) = MaxFolder
  /\ ~call.dataset["paper"].exists
  /\ call.dataset["scissors"].exists
  /\ call.run.error = <<"Dataset folder not found", "paper">>

\* C23: in the fast script, for a dataset of n PNG items the subset has
\* min(100, n) items, the validation set floor(0.2 * subset size) items
\* and the training set the rest; the two are disjoint and together are
\* the subset; and the shuffled list is a permutation of the items.
C23_SubsetAndSplit ==
  (Ran /\ call.fn # "threw" /\ call.script = "fast") =>
    LET n == Cardinality(PngPaths(call.dataset))
        r == call.run
        m == Len(r.subsetItems)
        v == Len(r.valItems)
    IN /\ Len(r.dataItems) = n
       /\ Len(r.shuffled) = n
       /\ SeqSet(r.shuffled) = SeqSet(r.dataItems)
       /\ Cardinality(SeqSet(r.shuffled)) = n
       /\ m = (IF n < 100 THEN n ELSE 100)
       /\ 5 * v <= m /\ m < 5 * (v + 1)
       /\ Len(r.trainItems) = m - v
       /\ SeqSet(r.valItems) \cap SeqSet(r.trainItems) = {}
       /\ SeqSet(r.valItems) \cup SeqSet(r.trainItems) = SeqSet(r.subsetItems)
       /\ SeqSet(r.subsetItems) \subseteq SeqSet(r.dataItems)
       /\ Cardinality(SeqSet(r.subsetItems)) = m

C23_Witness ==
  /\ call.fn = "loaded"
  /\ call.script = "fast"
  /\ Len(call.run.dataItems) > 100
  /\ Len(call.run.subsetItems) = 100
  /\ Len(call.run.valItems) = 20
  /\ Len(call.run.trainItems) = 80
  /\ call.run.shuffled # call.run.dataItems

====
